---- MODULE Spec2Model ----
(***************************************************************************)
(* DriveIQ trip tracking: the Today screen's trip accumulator              *)
(* (startTracking / handleLocationUpdate / stopTracking), the background   *)
(* location task and the offline trip store.                               *)
(*                                                                         *)
(* The repository carries three revisions of the Today screen; the model   *)
(* runs any one of them, chosen in Init and recorded in `screen`:          *)
(*   "watcher"  src/unnamed/part_000           foreground watcher only     *)
(*   "task"     src/unnamed/part_001:1-710     watcher + background task   *)
(*                                             that calls back the screen  *)
(*   "offline"  src/unnamed/part_001:712-1589  tripDataRef, offline store, *)
(*              with the task of src/unnamed/part_004 (logs only)          *)
(*                                                                         *)
(* Units.  Raw speed: tenths of m/s (or Null).  Angles: degrees (the       *)
(* factor PI/180 is folded into Math_sin / Math_cos).  Trigonometric       *)
(* values and sqrt: thousandths.  Distance: metres.  Time: milliseconds.   *)
(* Platform.OS is 'android'.  An empty API_URL behaves as a failed trip    *)
(* creation (isOffline = TRUE) and is covered by that outcome.             *)
(***************************************************************************)
EXTENDS Integers, Sequences, FiniteSets, TLC

\* ---------------------------------------------------------------- bounds
MaxFixes == 3          \* fixes produced by the location source, "mixed"
MaxFixesStopGo == 13   \* fixes produced in "stopgo"
MaxFixesFaults == 2    \* fixes produced in "faults"
MaxQueue == 2          \* fixes pending in one delivery channel
MaxTrips == 2          \* trips started in "faults" (one trip otherwise)
MaxStops == 2          \* summaries computed for one trip
MaxRawSpeed == 20      \* |raw speed| given to the conversion, tenths of m/s
MaxSpeedKmh == 40      \* speeds given to the event conditions, km/h

\* ------------------------------------------------------ program constants
BrakeThreshold == 15
AccelThreshold == 15
SpeedLimit == 130
BrakeMinSpeed == 20
BrakePenalty == 4
AccelPenalty == 4
SpeedingPenalty == 8
R == 6371
FixIntervalMs == 1000

None == [none |-> TRUE]

Screens == {"watcher", "task", "offline"}
Scenarios == {"mixed", "stopgo", "faults"}

Pos(lat, lon) == [latitude |-> lat, longitude |-> lon]

\* What the environment does in each scenario.
\*   "mixed"   any speed and position per fix, delivered before the next
\*             fix is produced; requests succeed; one trip
\*   "stopgo"  a long drive alternating 135 km/h and standstill at one
\*             place, delivered likewise; requests succeed; one trip
\*   "faults"  standstill at one place or 135 km/h at another; deliveries
\*             may lag; every request and permission prompt may fail;
\*             several trips
Speed(v) == [null |-> FALSE, v |-> v]
NullSpeed == [null |-> TRUE, v |-> 0]
MixedSpeeds == {NullSpeed, Speed(-10), Speed(56), Speed(347), Speed(375)}
MixedPositions == {Pos(0, 0), Pos(30, 60)}
\* the k-th fix
Samples(s, k) ==
  CASE s = "mixed" -> [speed : MixedSpeeds, pos : MixedPositions]
    [] s = "stopgo" -> IF k % 2 = 1
                       THEN {[speed |-> Speed(375), pos |-> Pos(0, 0)]}
                       ELSE {[speed |-> NullSpeed, pos |-> Pos(0, 0)]}
    [] s = "faults" -> {[speed |-> NullSpeed, pos |-> Pos(0, 0)],
                        [speed |-> Speed(375), pos |-> Pos(30, 60)]}
QueueBound(s) == IF s = "faults" THEN MaxQueue ELSE 1
FixBound(s) ==
  CASE s = "mixed" -> MaxFixes
    [] s = "stopgo" -> MaxFixesStopGo
    [] s = "faults" -> MaxFixesFaults
TripBound(s) == IF s = "faults" THEN MaxTrips ELSE 1
Outcomes(s) == IF s = "faults" THEN BOOLEAN ELSE {TRUE}

\* ------------------------------------------------------------ arithmetic
Abs(x) == IF x < 0 THEN -x ELSE x
\* mutant: Math.min in place of Math.max
Max_Min(a, b) == IF a > b THEN b ELSE a

Max(a, b) == IF a > b THEN a ELSE b

\* Math.round(n / d) for d > 0: nearest integer, ties towards +infinity
Math_round(n, d) == (2 * n + d) \div (2 * d)

\* Number.toFixed on a non-negative n / d, result in units of d
ToFixed(n, d) == Math_round(n, d)

\* product of two thousandths, rounded to nearest, sign-symmetric
Mul(a, b) ==
  LET p == (Abs(a) * Abs(b) + 500) \div 1000
  IN  IF (a < 0) = (b < 0) THEN p ELSE -p

Math_sin(deg) ==
  CASE deg = 0 -> 0
    [] deg = 15 -> 259
    [] deg = -15 -> -259
    [] deg = 30 -> 500
    [] deg = -30 -> -500

Math_cos(deg) ==
  CASE deg = 0 -> 1000
    [] Abs(deg) = 30 -> 866
    [] Abs(deg) = 60 -> 500

RECURSIVE SqrtSearch(_, _, _)
SqrtSearch(n, lo, hi) ==
  IF lo >= hi THEN lo
  ELSE LET mid == (lo + hi + 1) \div 2
       IN  IF mid * mid <= n THEN SqrtSearch(n, mid, hi)
           ELSE SqrtSearch(n, lo, mid - 1)

\* Math.sqrt of millionths, in thousandths
Math_sqrt(n) == SqrtSearch(n, 0, 1000)

\* atan of t thousandths, 0 <= t <= 1000, in milliradians
AtanUnit(t) == (t * (785000 + 273 * (1000 - t))) \div 1000000

\* mutant: the arguments of atan2 are taken in the other order
Math_atan2_Swapped(y, x) ==
  IF x = 0 THEN 0
  ELSE IF x <= y THEN AtanUnit((x * 1000) \div y)
  ELSE 1571 - AtanUnit((y * 1000) \div x)

\* Math.atan2(y, x) for x, y >= 0, in milliradians
Math_atan2(y, x) ==
  IF y = 0 THEN 0
  ELSE IF y <= x THEN AtanUnit((y * 1000) \div x)
  ELSE 1571 - AtanUnit((x * 1000) \div y)

\* mutant: the cosine of the first latitude is used for both points
calculateDistance_OneLatitude(lat1, lon1, lat2, lon2) ==
  LET dLat == lat2 - lat1
      dLon == lon2 - lon1
      a == Mul(Math_sin(dLat \div 2), Math_sin(dLat \div 2))
           + Mul(Mul(Mul(Math_cos(lat1), Math_cos(lat1)),
                     Math_sin(dLon \div 2)),
                 Math_sin(dLon \div 2))
      c == 2 * Math_atan2(Math_sqrt(a * 1000), Math_sqrt((1000 - a) * 1000))
  IN  R * c

\* Haversine distance in metres
calculateDistance(lat1, lon1, lat2, lon2) ==
  LET dLat == lat2 - lat1
      dLon == lon2 - lon1
      a == Mul(Math_sin(dLat \div 2), Math_sin(dLat \div 2))
           + Mul(Mul(Mul(Math_cos(lat1), Math_cos(lat2)),
                     Math_sin(dLon \div 2)),
                 Math_sin(dLon \div 2))
      c == 2 * Math_atan2(Math_sqrt(a * 1000), Math_sqrt((1000 - a) * 1000))
  IN  R * c

RECURSIVE SumSeq(_)
SumSeq(s) == IF s = <<>> THEN 0 ELSE Head(s) + SumSeq(Tail(s))

\* ------------------------------------------------------------------ state
VARIABLES
  screen,               \* which revision of the Today screen runs
  scenario,             \* what the environment does
  locationPermission, backgroundPermission,
  isTracking, isLoading,
  tripData,             \* the accumulator object of the latest trip
  currentTrip,          \* React state: None, or a view of tripData
  tripDataRef,          \* "offline": tripDataRef.current is set
  globalTripData,       \* "task": module-level globalTripData is set
  onLocationUpdateCallback, \* "task": module-level callback is set
  previousSpeed, previousLocation,
  locationSubscription, \* foreground watcher is subscribed
  bgRunning,            \* background location updates are started
  pc,                   \* position of startTracking / stopTracking
  stopTrip,             \* currentTrip as captured by the running stopTracking
  summary,              \* last final stats computed by stopTracking
  offlineTrips,         \* AsyncStorage item driveiq_offline_trips (JSON text)
  fgQueue, bgQueue,     \* fixes on their way to each channel's callback
  now,                  \* clock
  fixes,                \* number of fixes produced so far
  applied,              \* history: per fix, times handleLocationUpdate took it
  lastUpdate,           \* history: the last handleLocationUpdate call
  updates,              \* history: handleLocationUpdate calls on tripData
  trips,                \* history: number of accumulators created
  finalized,            \* history: summaries computed for the latest trip
  remoteTrips,          \* the trips the backend holds a summary of
  fed,                  \* history: the fixes (id, speed) applied to tripData
  probe                 \* the last call of a function made on its own

programVars == <<screen, scenario, locationPermission, backgroundPermission,
                 isTracking, isLoading, tripData, currentTrip, tripDataRef,
                 globalTripData, onLocationUpdateCallback, previousSpeed,
                 previousLocation, locationSubscription, bgRunning, pc,
                 stopTrip, summary, offlineTrips, fgQueue, bgQueue, now,
                 fixes, applied, lastUpdate, updates, trips, finalized,
                 remoteTrips, fed>>

vars == <<programVars, probe>>

Init ==
  /\ screen \in Screens
  /\ scenario \in Scenarios
  /\ locationPermission = FALSE
  /\ backgroundPermission = FALSE
  /\ isTracking = FALSE
  /\ isLoading = FALSE
  /\ tripData = None
  /\ currentTrip = None
  /\ tripDataRef = FALSE
  /\ globalTripData = FALSE
  /\ onLocationUpdateCallback = FALSE
  /\ previousSpeed = 0
  /\ previousLocation = None
  /\ locationSubscription = FALSE
  /\ bgRunning = FALSE
  /\ pc = "init"
  /\ stopTrip = None
  /\ summary = None
  /\ offlineTrips = <<>>
  /\ fgQueue = <<>>
  /\ bgQueue = <<>>
  /\ now = 0
  /\ fixes = 0
  /\ applied = <<>>
  /\ lastUpdate = None
  /\ updates = 0
  /\ trips = 0
  /\ finalized = 0
  /\ remoteTrips = <<>>
  /\ fed = {}
  /\ probe = [fn |-> "none"]

\* ------------------------------------------------------ handleLocationUpdate
\* (location.coords.speed || 0) * 3.6, in hundredths of km/h
SpeedKmh(location) ==
  (IF location.coords.speed.null THEN 0 ELSE location.coords.speed.v) * 36

\* mutant: the rounded speed is not clamped at 0
SpeedOf_NoClamp(location) == Math_round(SpeedKmh(location), 100)

\* Math.max(0, Math.round(speedKmh))
SpeedOf(location) == Max(0, Math_round(SpeedKmh(location), 100))

IsHardBrake(prev, speed) ==
  IF screen = "offline"
  THEN prev - speed > BrakeThreshold /\ prev > BrakeMinSpeed
  ELSE prev - speed > BrakeThreshold

\* mutant: the acceleration threshold is 20
IsHardAcceleration_Over20(prev, speed) == speed - prev > 20

\* mutant: any change of more than the threshold is an acceleration
IsHardAcceleration_AnyChange(prev, speed) ==
  Abs(speed - prev) > AccelThreshold

IsHardAcceleration(prev, speed) == speed - prev > AccelThreshold

IsSpeeding(prev, speed) == speed > SpeedLimit /\ prev <= SpeedLimit

DistanceFrom(prevLoc, location) ==
  IF prevLoc # None
  THEN calculateDistance(prevLoc.latitude, prevLoc.longitude,
                         location.coords.latitude, location.coords.longitude)
  ELSE 0

\* mutant: maxSpeed follows the latest speed
NewMaxSpeed_Latest(maxSpeed, speed) == speed

\* mutant: maxSpeed keeps the first speed above 0
NewMaxSpeed_First(maxSpeed, speed) == IF maxSpeed = 0 THEN speed ELSE maxSpeed

NewMaxSpeed(maxSpeed, speed) == IF speed > maxSpeed THEN speed ELSE maxSpeed

\* mutant: a standstill is not recorded
PushReading_SkipZero(readings, speed) ==
  IF speed = 0 THEN readings ELSE Append(readings, speed)

PushReading(readings, speed) == Append(readings, speed)

\* mutant: the previous speed is overwritten before the three checks
Updated_PreviousOverwritten(td, prevSpeed, prevLoc, location) ==
  LET speed == SpeedOf(location) IN
  [td EXCEPT
     !.distance = @ + DistanceFrom(prevLoc, location),
     !.maxSpeed = NewMaxSpeed(@, speed),
     !.speedReadings = PushReading(@, speed),
     !.hardBrakes = IF IsHardBrake(speed, speed) THEN @ + 1 ELSE @,
     !.hardAccelerations =
        IF IsHardAcceleration(speed, speed) THEN @ + 1 ELSE @,
     !.speedingCount = IF IsSpeeding(speed, speed) THEN @ + 1 ELSE @]

\* the accumulator after one handleLocationUpdate call
Updated(td, prevSpeed, prevLoc, location) ==
  LET speed == SpeedOf(location) IN
  [td EXCEPT
     !.distance = @ + DistanceFrom(prevLoc, location),
     !.maxSpeed = NewMaxSpeed(@, speed),
     !.speedReadings = PushReading(@, speed),
     !.hardBrakes = IF IsHardBrake(prevSpeed, speed) THEN @ + 1 ELSE @,
     !.hardAccelerations =
        IF IsHardAcceleration(prevSpeed, speed) THEN @ + 1 ELSE @,
     !.speedingCount = IF IsSpeeding(prevSpeed, speed) THEN @ + 1 ELSE @]

\* mutant: a hard acceleration raises a toast too
Toasts_EveryEvent(prevSpeed, speed) ==
  IF screen = "watcher" THEN <<>>
  ELSE (IF IsHardBrake(prevSpeed, speed) THEN <<"hard-brake">> ELSE <<>>)
       \o (IF IsHardAcceleration(prevSpeed, speed)
            THEN <<"hard-acceleration">> ELSE <<>>)
       \o (IF IsSpeeding(prevSpeed, speed) THEN <<"speeding">> ELSE <<>>)

\* showToast calls of one handleLocationUpdate call
Toasts(prevSpeed, speed) ==
  IF screen = "watcher" THEN <<>>
  ELSE (IF IsHardBrake(prevSpeed, speed) THEN <<"hard-brake">> ELSE <<>>)
       \o (IF IsSpeeding(prevSpeed, speed) THEN <<"speeding">> ELSE <<>>)

\* setCurrentTrip({ ...tripData }): a copy of the scalar fields; the
\* speedReadings array stays shared with the accumulator
CopyOf(td) ==
  [alias |-> FALSE, id |-> td.id, startTime |-> td.startTime,
   distance |-> td.distance, maxSpeed |-> td.maxSpeed,
   hardBrakes |-> td.hardBrakes,
   hardAccelerations |-> td.hardAccelerations,
   speedingCount |-> td.speedingCount]

\* setCurrentTrip(tripData): the state is the accumulator object itself
AliasOf(td) == [CopyOf(td) EXCEPT !.alias = TRUE]

\* the body of handleLocationUpdate applied to the accumulator
HandleLocationUpdate(fix, channel) ==
  LET location == fix.location
      speed == SpeedOf(location)
      after == Updated(tripData, previousSpeed, previousLocation, location)
  IN
  /\ tripData' = after
  /\ previousLocation' = [latitude |-> location.coords.latitude,
                          longitude |-> location.coords.longitude]
  /\ previousSpeed' = speed
  /\ currentTrip' = CopyOf(after)
  /\ updates' = updates + 1
  /\ applied' = [applied EXCEPT ![fix.id] = @ + 1]
  /\ fed' = fed \cup {[id |-> fix.id, speed |-> speed]}
  /\ lastUpdate' = [fix |-> fix.id, trip |-> tripData.id,
                    location |-> location, speed |-> speed,
                    before |-> tripData, prevSpeed |-> previousSpeed,
                    prevLoc |-> previousLocation, after |-> after,
                    toasts |-> Toasts(previousSpeed, speed)]

\* a callback that does not reach the accumulator
IgnoreLocation ==
  UNCHANGED <<tripData, previousLocation, previousSpeed, currentTrip,
              updates, applied, lastUpdate, fed>>

\* ------------------------------------------------------------- the source
\* The location source produces one fix; every started channel receives it.
LocationFix ==
  \E sample \in Samples(scenario, fixes + 1) :
    LET fix == [id |-> fixes + 1,
                location |-> [coords |-> [latitude |-> sample.pos.latitude,
                                          longitude |-> sample.pos.longitude,
                                          speed |-> sample.speed],
                              timestamp |-> now + FixIntervalMs]]
    IN
    /\ fixes < FixBound(scenario)
    /\ locationSubscription \/ bgRunning
    /\ Len(fgQueue) < QueueBound(scenario)
    /\ Len(bgQueue) < QueueBound(scenario)
    /\ fixes' = fixes + 1
    /\ now' = now + FixIntervalMs
    /\ applied' = Append(applied, 0)
    /\ fgQueue' = IF locationSubscription THEN Append(fgQueue, fix)
                  ELSE fgQueue
    /\ bgQueue' = IF bgRunning THEN Append(bgQueue, fix) ELSE bgQueue
    /\ UNCHANGED <<probe, fed, remoteTrips, screen, scenario,
                   locationPermission, backgroundPermission,
                   isTracking, isLoading, tripData, currentTrip, tripDataRef,
                   globalTripData, onLocationUpdateCallback, previousSpeed,
                   previousLocation, locationSubscription, bgRunning, pc,
                   stopTrip, summary, offlineTrips, lastUpdate, updates,
                   trips, finalized>>

\* The foreground watcher's callback runs on the oldest pending fix.
ForegroundDeliver ==
  /\ fgQueue # <<>>
  /\ fgQueue' = Tail(fgQueue)
  /\ IF screen = "offline" /\ ~tripDataRef
     THEN IgnoreLocation
     ELSE HandleLocationUpdate(Head(fgQueue), "foreground")
  /\ UNCHANGED <<probe, remoteTrips, screen, scenario, locationPermission,
                 backgroundPermission,
                 isTracking, isLoading, tripDataRef, globalTripData,
                 onLocationUpdateCallback, locationSubscription, bgRunning,
                 pc, stopTrip, summary, offlineTrips, bgQueue, now, fixes,
                 trips, finalized>>

\* The background task runs on the oldest pending fix (locations[0]).
BackgroundDeliver ==
  /\ bgQueue # <<>>
  /\ bgQueue' = Tail(bgQueue)
  /\ IF screen = "task" /\ globalTripData /\ onLocationUpdateCallback
     THEN HandleLocationUpdate(Head(bgQueue), "background")
     ELSE IgnoreLocation
  /\ UNCHANGED <<probe, remoteTrips, screen, scenario, locationPermission,
                 backgroundPermission,
                 isTracking, isLoading, tripDataRef, globalTripData,
                 onLocationUpdateCallback, locationSubscription, bgRunning,
                 pc, stopTrip, summary, offlineTrips, fgQueue, now, fixes,
                 trips, finalized>>

\* --------------------------------------------------------------- lifecycle
\* initializeDevice: the permission prompts are answered
InitializeDevice ==
  \E fg \in Outcomes(scenario), bg \in BOOLEAN :
    /\ pc = "init"
    /\ bg = (fg /\ screen # "watcher")
    /\ locationPermission' = fg
    /\ backgroundPermission' = bg
    /\ pc' = "idle"
    /\ UNCHANGED <<probe, fed, remoteTrips, screen, scenario, isTracking,
                   isLoading, tripData,
                   currentTrip, tripDataRef, globalTripData,
                   onLocationUpdateCallback, previousSpeed, previousLocation,
                   locationSubscription, bgRunning, stopTrip, summary,
                   offlineTrips, fgQueue, bgQueue, now, fixes, applied,
                   lastUpdate, updates, trips, finalized>>

NewTrip(id, startTime, isOffline) ==
  [id |-> id, startTime |-> startTime, distance |-> 0, maxSpeed |-> 0,
   avgSpeed |-> 0, hardBrakes |-> 0, hardAccelerations |-> 0,
   speedingCount |-> 0, speedReadings |-> <<>>, isOffline |-> isOffline]

\* startTracking up to its first await (the start button is pressed)
StartTracking ==
  /\ pc = "idle"
  /\ ~isTracking
  /\ ~isLoading
  /\ locationPermission
  /\ screen = "task" => backgroundPermission
  /\ trips < TripBound(scenario)
  /\ isLoading' = TRUE
  /\ pc' = "start_create"
  /\ UNCHANGED <<probe, fed, remoteTrips, screen, scenario,
                 locationPermission, backgroundPermission,
                 isTracking, tripData, currentTrip, tripDataRef,
                 globalTripData, onLocationUpdateCallback, previousSpeed,
                 previousLocation, locationSubscription, bgRunning, stopTrip,
                 summary, offlineTrips, fgQueue, bgQueue, now, fixes,
                 applied, lastUpdate, updates, trips, finalized>>

\* startTracking: the POST /api/trips answer arrives; the accumulator is made
StartCreate ==
  \E ok \in Outcomes(scenario) :
    /\ pc = "start_create"
    /\ IF ~ok /\ screen # "offline"
       THEN /\ isLoading' = FALSE
            /\ pc' = "idle"
            /\ UNCHANGED <<tripData, currentTrip, tripDataRef,
                           globalTripData, onLocationUpdateCallback, updates,
                           trips, finalized, fed>>
       ELSE /\ tripData' = NewTrip(trips + 1, now, ~ok)
            /\ currentTrip' = AliasOf(tripData')
            /\ tripDataRef' = (screen = "offline")
            /\ globalTripData' = (screen = "task")
            /\ onLocationUpdateCallback' = (screen = "task")
            /\ updates' = 0
            /\ fed' = {}
            /\ trips' = trips + 1
            /\ finalized' = 0
            /\ pc' = IF screen = "watcher" THEN "start_fg" ELSE "start_bg"
            /\ UNCHANGED isLoading
    /\ UNCHANGED <<probe, remoteTrips, screen, scenario, locationPermission,
                   backgroundPermission,
                   isTracking, previousSpeed, previousLocation,
                   locationSubscription, bgRunning, stopTrip, summary,
                   offlineTrips, fgQueue, bgQueue, now, fixes, applied,
                   lastUpdate>>

\* startTracking: Location.startLocationUpdatesAsync settles
StartBackground ==
  \E ok \in Outcomes(scenario) :
    /\ pc = "start_bg"
    /\ IF ok
       THEN /\ bgRunning' = TRUE
            /\ pc' = "start_fg"
            /\ UNCHANGED <<isLoading, bgQueue>>
       ELSE IF screen = "task"
       THEN /\ isLoading' = FALSE
            /\ pc' = "idle"
            /\ UNCHANGED <<bgRunning, bgQueue>>
       ELSE /\ bgRunning' = FALSE
            /\ bgQueue' = <<>>
            /\ pc' = "start_fg"
            /\ UNCHANGED isLoading
    /\ UNCHANGED <<probe, fed, remoteTrips, screen, scenario,
                   locationPermission, backgroundPermission,
                   isTracking, tripData, currentTrip, tripDataRef,
                   globalTripData, onLocationUpdateCallback, previousSpeed,
                   previousLocation, locationSubscription, stopTrip, summary,
                   offlineTrips, fgQueue, now, fixes, applied, lastUpdate,
                   updates, trips, finalized>>

\* startTracking: Location.watchPositionAsync settles; on success the
\* continuation (setIsTracking, the reset of the previous sample) runs; on
\* failure the catch block runs, whose clean-up ("offline") may fail too
StartForeground ==
  \E ok \in Outcomes(scenario), cleanupOk \in Outcomes(scenario) :
    /\ pc = "start_fg"
    /\ ok => cleanupOk
    /\ IF ok
       THEN /\ locationSubscription' = TRUE
            /\ isTracking' = TRUE
            /\ previousSpeed' = 0
            /\ previousLocation' = None
            /\ UNCHANGED <<bgRunning, bgQueue>>
       ELSE /\ IF screen = "offline" /\ cleanupOk
               THEN bgRunning' = FALSE /\ bgQueue' = <<>>
               ELSE UNCHANGED <<bgRunning, bgQueue>>
            /\ UNCHANGED <<locationSubscription, isTracking, previousSpeed,
                           previousLocation>>
    /\ isLoading' = FALSE
    /\ pc' = "idle"
    /\ UNCHANGED <<probe, fed, remoteTrips, screen, scenario,
                   locationPermission, backgroundPermission,
                   tripData, currentTrip, tripDataRef, globalTripData,
                   onLocationUpdateCallback, stopTrip, summary, offlineTrips,
                   fgQueue, now, fixes, applied, lastUpdate, updates, trips,
                   finalized>>

\* ------------------------------------------------------------ stopTracking
\* the trip object stopTracking reads: the captured currentTrip state
\* ("watcher", "task") or tripDataRef.current ("offline"); speedReadings and
\* an aliased state are the accumulator itself
StopView(captured) ==
  IF screen = "offline" \/ captured.alias THEN CopyOf(tripData) ELSE captured

\* mutant: the weights of braking and speeding are exchanged
Penalty_Swapped(t) ==
  t.hardBrakes * SpeedingPenalty + t.hardAccelerations * AccelPenalty
  + t.speedingCount * BrakePenalty

Penalty(t) ==
  t.hardBrakes * BrakePenalty + t.hardAccelerations * AccelPenalty
  + t.speedingCount * SpeedingPenalty

\* mutant: the score is not floored at 0
Score_NoFloor(t) == 100 - Penalty(t)

\* score = 100 - penalties; Math.max(0, score), rounded in "offline"
Score(t) ==
  IF screen = "offline" THEN Max(0, Math_round(100 - Penalty(t), 1))
  ELSE Max(0, 100 - Penalty(t))

\* mutant: the sum is divided by one more than the number of readings
AvgSpeed_OffByOne(readings) ==
  IF Len(readings) > 0
  THEN [sum |-> SumSeq(readings), count |-> Len(readings) + 1]
  ELSE [sum |-> 0, count |-> 1]

\* speedReadings.reduce((a, b) => a + b, 0) / speedReadings.length, or 0,
\* kept as the exact fraction sum / count
AvgSpeed(readings) ==
  IF Len(readings) > 0
  THEN [sum |-> SumSeq(readings), count |-> Len(readings)]
  ELSE [sum |-> 0, count |-> 1]

\* mutant: the duration is taken from the end of the trip to its start
FinalStats_Reversed(t, readings, endTime) ==
  LET durationMs == t.startTime - endTime
      avgSpeed == AvgSpeed(readings)
  IN  [id |-> t.id, end_time |-> endTime, durationMs |-> durationMs,
       avgSpeed |-> avgSpeed, distance |-> t.distance,
       distance_km |-> ToFixed(t.distance, 10),
       duration_minutes |-> ToFixed(durationMs * 100, 60000),
       max_speed |-> t.maxSpeed,
       avg_speed |-> ToFixed(avgSpeed.sum * 10, avgSpeed.count),
       hard_brakes |-> t.hardBrakes,
       hard_accelerations |-> t.hardAccelerations,
       speeding_count |-> t.speedingCount,
       score |-> Score(t)]

\* the final stats: the PUT body / offline record (distance_km in 0.01 km,
\* duration_minutes in 0.01 min, avg_speed in 0.1 km/h) and the unrounded
\* values they are made from
FinalStats(t, readings, endTime) ==
  LET durationMs == endTime - t.startTime
      avgSpeed == AvgSpeed(readings)
  IN  [id |-> t.id, end_time |-> endTime, durationMs |-> durationMs,
       avgSpeed |-> avgSpeed, distance |-> t.distance,
       distance_km |-> ToFixed(t.distance, 10),
       duration_minutes |-> ToFixed(durationMs * 100, 60000),
       max_speed |-> t.maxSpeed,
       avg_speed |-> ToFixed(avgSpeed.sum * 10, avgSpeed.count),
       hard_brakes |-> t.hardBrakes,
       hard_accelerations |-> t.hardAccelerations,
       speeding_count |-> t.speedingCount,
       score |-> Score(t)]

ComputeSummary(captured) ==
  /\ summary' = FinalStats(StopView(captured), tripData.speedReadings, now)
  /\ finalized' = finalized + 1

\* the "Reset state" block at the end of a successful stopTracking
ResetState ==
  /\ currentTrip' = None
  /\ tripDataRef' = FALSE
  /\ isTracking' = FALSE
  /\ previousSpeed' = 0
  /\ previousLocation' = None

\* mutant: stopTracking leaves the foreground watcher subscribed
StopTracking_KeepsWatcher ==
  /\ pc = "idle"
  /\ isTracking
  /\ ~isLoading
  /\ IF screen = "offline" THEN tripDataRef ELSE currentTrip # None
  /\ finalized < MaxStops
  /\ isLoading' = TRUE
  /\ stopTrip' = currentTrip
  /\ IF screen = "watcher"
     THEN ComputeSummary(currentTrip) /\ pc' = "stop_put"
     ELSE UNCHANGED <<summary, finalized>> /\ pc' = "stop_bg"
  /\ UNCHANGED <<probe, fed, remoteTrips, screen, scenario,
                 locationPermission, backgroundPermission,
                 locationSubscription, fgQueue,
                 isTracking, tripData, currentTrip, tripDataRef,
                 globalTripData, onLocationUpdateCallback, previousSpeed,
                 previousLocation, bgRunning, offlineTrips, bgQueue, now,
                 fixes, applied, lastUpdate, updates, trips>>

\* stopTracking up to its first await (the stop button is pressed)
StopTracking ==
  /\ pc = "idle"
  /\ isTracking
  /\ ~isLoading
  /\ IF screen = "offline" THEN tripDataRef ELSE currentTrip # None
  /\ finalized < MaxStops
  /\ isLoading' = TRUE
  /\ locationSubscription' = FALSE
  /\ fgQueue' = <<>>
  /\ stopTrip' = currentTrip
  /\ IF screen = "watcher"
     THEN ComputeSummary(currentTrip) /\ pc' = "stop_put"
     ELSE UNCHANGED <<summary, finalized>> /\ pc' = "stop_bg"
  /\ UNCHANGED <<probe, fed, remoteTrips, screen, scenario,
                 locationPermission, backgroundPermission,
                 isTracking, tripData, currentTrip, tripDataRef,
                 globalTripData, onLocationUpdateCallback, previousSpeed,
                 previousLocation, bgRunning, offlineTrips, bgQueue, now,
                 fixes, applied, lastUpdate, updates, trips>>

\* stopTracking: TaskManager.isTaskRegisteredAsync and
\* Location.stopLocationUpdatesAsync settle; the final stats are computed
StopBackground ==
  \E ok \in Outcomes(scenario) :
    /\ pc = "stop_bg"
    /\ IF ok
       THEN bgRunning' = FALSE /\ bgQueue' = <<>>
       ELSE UNCHANGED <<bgRunning, bgQueue>>
    /\ IF ~ok /\ screen = "task"
       THEN /\ isLoading' = FALSE
            /\ pc' = "idle"
            /\ UNCHANGED <<globalTripData, onLocationUpdateCallback,
                           summary, finalized>>
       ELSE /\ globalTripData' = FALSE
            /\ onLocationUpdateCallback' = FALSE
            /\ ComputeSummary(stopTrip)
            /\ pc' = IF screen = "offline" /\ tripData.isOffline
                     THEN "stop_save" ELSE "stop_put"
            /\ UNCHANGED isLoading
    /\ UNCHANGED <<probe, fed, remoteTrips, screen, scenario,
                   locationPermission, backgroundPermission,
                   isTracking, tripData, currentTrip, tripDataRef,
                   previousSpeed, previousLocation, locationSubscription,
                   stopTrip, offlineTrips, fgQueue, now, fixes, applied,
                   lastUpdate, updates, trips>>

\* what the backend keeps of an accepted PUT /api/trips/{id}: the trip id of
\* the URL and, of the body, the counters and the score
RemoteRecord(s) ==
  [id |-> s.id, hard_brakes |-> s.hard_brakes,
   hard_accelerations |-> s.hard_accelerations,
   speeding_count |-> s.speeding_count, score |-> s.score]

\* stopTracking: the PUT /api/trips/{id} answer arrives
StopPut ==
  \E ok \in Outcomes(scenario) :
    /\ pc = "stop_put"
    /\ IF ok
       THEN /\ remoteTrips' = Append(remoteTrips, RemoteRecord(summary))
            /\ ResetState
            /\ isLoading' = FALSE
            /\ pc' = "idle"
       ELSE IF screen = "offline"
       THEN /\ pc' = "stop_save"
            /\ UNCHANGED <<remoteTrips, currentTrip, tripDataRef, isTracking,
                           previousSpeed, previousLocation, isLoading>>
       ELSE /\ isLoading' = FALSE
            /\ pc' = "idle"
            /\ UNCHANGED <<remoteTrips, currentTrip, tripDataRef, isTracking,
                           previousSpeed, previousLocation>>
    /\ UNCHANGED <<probe, fed, screen, scenario, locationPermission,
                   backgroundPermission,
                   tripData, globalTripData, onLocationUpdateCallback,
                   locationSubscription, bgRunning, stopTrip, summary,
                   offlineTrips, fgQueue, bgQueue, now, fixes, applied,
                   lastUpdate, updates, trips, finalized>>

\* the record saveOfflineTrip pushes
OfflineRecord(t, score, duration, avgSpeed, endTime) ==
  [id |-> t.id, start_time |-> t.startTime, end_time |-> endTime,
   distance_km |-> ToFixed(t.distance, 10),
   duration_minutes |-> ToFixed(duration * 100, 60000),
   max_speed |-> t.maxSpeed,
   avg_speed |-> ToFixed(avgSpeed.sum * 10, avgSpeed.count),
   hard_brakes |-> t.hardBrakes,
   hard_accelerations |-> t.hardAccelerations,
   speeding_count |-> t.speedingCount,
   score |-> score, synced |-> FALSE]

\* JSON.stringify of the trips array: per record the values of its members,
\* in the order of the object literal
JSON_stringify(list) ==
  [i \in 1..Len(list) |->
     <<list[i].id, list[i].start_time, list[i].end_time,
       list[i].distance_km, list[i].duration_minutes, list[i].max_speed,
       list[i].avg_speed, list[i].hard_brakes, list[i].hard_accelerations,
       list[i].speeding_count, list[i].score, list[i].synced>>]

\* JSON.parse of the stored text
JSON_parse(text) ==
  [i \in 1..Len(text) |->
     [id |-> text[i][1], start_time |-> text[i][2], end_time |-> text[i][3],
      distance_km |-> text[i][4], duration_minutes |-> text[i][5],
      max_speed |-> text[i][6], avg_speed |-> text[i][7],
      hard_brakes |-> text[i][8], hard_accelerations |-> text[i][9],
      speeding_count |-> text[i][10], score |-> text[i][11],
      synced |-> text[i][12]]]

\* mutant: the stored list is replaced by the new record alone
saveOfflineTrip_Overwrite(storageOk) ==
  IF storageOk
  THEN offlineTrips' =
         JSON_stringify(
           <<OfflineRecord(tripData, summary.score, summary.durationMs,
                           summary.avgSpeed, now)>>)
  ELSE UNCHANGED offlineTrips

\* saveOfflineTrip: read the stored item (absent: []), push, write it back;
\* a storage error is caught and logged
saveOfflineTrip(storageOk) ==
  IF storageOk
  THEN offlineTrips' =
         JSON_stringify(
           Append(JSON_parse(offlineTrips),
                  OfflineRecord(tripData, summary.score, summary.durationMs,
                                summary.avgSpeed, now)))
  ELSE UNCHANGED offlineTrips

\* stopTracking ("offline"): saveOfflineTrip settles, then the reset
StopSave ==
  \E storageOk \in Outcomes(scenario) :
    /\ pc = "stop_save"
    /\ saveOfflineTrip(storageOk)
    /\ ResetState
    /\ isLoading' = FALSE
    /\ pc' = "idle"
    /\ UNCHANGED <<probe, fed, remoteTrips, screen, scenario,
                   locationPermission, backgroundPermission,
                   tripData, globalTripData, onLocationUpdateCallback,
                   locationSubscription, bgRunning, stopTrip, summary,
                   fgQueue, bgQueue, now, fixes, applied, lastUpdate,
                   updates, trips, finalized>>

Next ==
  \/ InitializeDevice
  \/ StartTracking
  \/ StartCreate
  \/ StartBackground
  \/ StartForeground
  \/ LocationFix
  \/ ForegroundDeliver
  \/ BackgroundDeliver
  \/ StopTracking
  \/ StopBackground
  \/ StopPut
  \/ StopSave

Spec == Init /\ [][Next]_vars

\* ------------------------------------------------- functions on their own
\* The pure parts of handleLocationUpdate, each called once on inputs of
\* its own.
RawSpeeds ==
  MixedSpeeds \cup {Speed(v) : v \in (-MaxRawSpeed)..MaxRawSpeed}
Latitudes == {0, 30, 60}
Longitudes == {0, 30, 60}
Positions == {Pos(lat, lon) : lat \in Latitudes, lon \in Longitudes}

LocationAt(pos, raw) ==
  [coords |-> [latitude |-> pos.latitude, longitude |-> pos.longitude,
               speed |-> raw],
   timestamp |-> 0]

\* const speed = Math.max(0, Math.round((location.coords.speed || 0) * 3.6))
ConvertSpeed ==
  \E raw \in RawSpeeds :
    /\ probe.fn = "none"
    /\ probe' = [fn |-> "speed", raw |-> raw,
                 speedKmh |-> SpeedKmh(LocationAt(Pos(0, 0), raw)),
                 speed |-> SpeedOf(LocationAt(Pos(0, 0), raw))]
    /\ UNCHANGED programVars

\* calculateDistance between two positions, and what an update at the
\* second adds to distance when the first is the previous location
MeasureDistance ==
  \E a \in Positions, b \in Positions :
    /\ probe.fn = "none"
    /\ probe' = [fn |-> "distance", from |-> a, to |-> b,
                 dist |-> calculateDistance(a.latitude, a.longitude,
                                            b.latitude, b.longitude),
                 added |-> DistanceFrom(a, LocationAt(b, NullSpeed))]
    /\ UNCHANGED programVars

\* the hard-brake and hard-acceleration conditions of one update
CompareSpeeds ==
  \E prev \in 0..MaxSpeedKmh, speed \in 0..MaxSpeedKmh :
    /\ probe.fn = "none"
    /\ probe' = [fn |-> "events", prev |-> prev, speed |-> speed,
                 brake |-> IsHardBrake(prev, speed),
                 accel |-> IsHardAcceleration(prev, speed)]
    /\ UNCHANGED programVars

NextFn ==
  \/ ConvertSpeed
  \/ MeasureDistance
  \/ CompareSpeeds

SpecFn == Init /\ [][NextFn]_vars

\* ------------------------------------------------------------------ claims
SameTrip == tripData # None /\ tripData' # None /\ tripData'.id = tripData.id

\* C1: during a trip none of distance, maxSpeed, hardBrakes,
\* hardAccelerations and speedingCount of the accumulator ever decreases:
\* across every step that keeps the trip, each is >= its value before.
C1_NonDecreasing ==
  [][SameTrip =>
       /\ tripData'.distance >= tripData.distance
       /\ tripData'.maxSpeed >= tripData.maxSpeed
       /\ tripData'.hardBrakes >= tripData.hardBrakes
       /\ tripData'.hardAccelerations >= tripData.hardAccelerations
       /\ tripData'.speedingCount >= tripData.speedingCount]_vars

\* an update after a faster one, at another place: distance grew, maxSpeed
\* stayed above the new speed, a counter grew
C1_Witness ==
  /\ lastUpdate # None
  /\ lastUpdate.after.distance > lastUpdate.before.distance
  /\ lastUpdate.after.maxSpeed > lastUpdate.speed
  /\ lastUpdate.after.hardBrakes > lastUpdate.before.hardBrakes

\* C2 (as claimed): every update adds exactly 1 to hardBrakes when
\* previous speed - current speed > 15, for every previous speed, and
\* leaves hardBrakes unchanged otherwise.
C2_BrakeOnEveryDrop ==
  lastUpdate # None =>
    lastUpdate.after.hardBrakes =
      lastUpdate.before.hardBrakes
      + (IF lastUpdate.prevSpeed - lastUpdate.speed > 15 THEN 1 ELSE 0)

\* C3: every update adds exactly 1 to hardAccelerations when
\* current speed - previous speed > 15 (and then adds no hard brake), and
\* leaves hardAccelerations unchanged otherwise.
C3_AccelOnEveryRise ==
  lastUpdate # None =>
    /\ lastUpdate.after.hardAccelerations =
         lastUpdate.before.hardAccelerations
         + (IF lastUpdate.speed - lastUpdate.prevSpeed > 15 THEN 1 ELSE 0)
    /\ lastUpdate.speed - lastUpdate.prevSpeed > 15 =>
         lastUpdate.after.hardBrakes = lastUpdate.before.hardBrakes

\* the update 0 -> 20 added one hard acceleration and no hard brake
C3_Witness ==
  /\ lastUpdate # None
  /\ lastUpdate.prevSpeed = 0
  /\ lastUpdate.speed = 20
  /\ lastUpdate.after.hardAccelerations =
       lastUpdate.before.hardAccelerations + 1
  /\ lastUpdate.after.hardBrakes = lastUpdate.before.hardBrakes

\* number of readings > 130 whose predecessor (prev for the first) is <= 130
RECURSIVE Crossings(_, _)
Crossings(readings, prev) ==
  IF readings = <<>> THEN 0
  ELSE (IF Head(readings) > 130 /\ prev <= 130 THEN 1 ELSE 0)
       + Crossings(Tail(readings), Head(readings))

\* C4 (as claimed): speedingCount equals the number of updates of the trip
\* whose speed is > 130 while the previous update's speed (0 before the
\* first) was <= 130.
C4_CountsCrossings ==
  tripData # None =>
    tripData.speedingCount = Crossings(tripData.speedReadings, 0)

\* C5: the score of a computed summary is
\* max(0, 100 - 4 hardBrakes - 4 hardAccelerations - 8 speedingCount).
C5_ScoreFormula ==
  summary # None =>
    summary.score =
      Max(0, 100 - 4 * summary.hard_brakes - 4 * summary.hard_accelerations
             - 8 * summary.speeding_count)

\* a summary with all three kinds of event and a score strictly inside 0..100
C5_Witness ==
  /\ summary # None
  /\ summary.hard_brakes > 0
  /\ summary.hard_accelerations > 0
  /\ summary.speeding_count > 0
  /\ summary.score > 0
  /\ summary.score < 100

\* C6: the score of a computed summary is an integer with 0 <= score <= 100.
C6_ScoreInRange == summary # None => summary.score \in 0..100

\* a summary whose penalties exceed 100 and whose score is 0
C6_Witness ==
  /\ summary # None
  /\ 4 * summary.hard_brakes + 4 * summary.hard_accelerations
     + 8 * summary.speeding_count > 100
  /\ summary.score = 0

\* C7: the length of speedReadings equals the number of handleLocationUpdate
\* calls applied to the trip's accumulator, in every state.
C7_ReadingsCountUpdates ==
  tripData # None => Len(tripData.speedReadings) = updates

\* several updates were applied to the second trip
C7_Witness ==
  /\ tripData # None
  /\ tripData.id = 2
  /\ updates >= 2
  /\ Len(tripData.speedReadings) = updates

\* C8: the average speed of a summary is sum / count over all readings of
\* the trip's updates when there is one, and 0 when there is none; the
\* stored avg_speed is that value to one decimal.
C8_AverageIsMean ==
  (summary # None /\ summary.id = tripData.id) =>
    /\ IF updates > 0
       THEN /\ summary.avgSpeed.sum = SumSeq(tripData.speedReadings)
            /\ summary.avgSpeed.count = updates
       ELSE summary.avgSpeed.sum = 0 /\ summary.avgSpeed.count > 0
    /\ summary.avg_speed =
         Math_round(10 * summary.avgSpeed.sum, summary.avgSpeed.count)

\* a summary over three readings whose mean is no whole number
C8_Witness ==
  /\ summary # None
  /\ summary.id = tripData.id
  /\ updates = 3
  /\ summary.avgSpeed.sum % 3 # 0

\* C9: the summary of a trip that received no update has score 100,
\* distance 0, average speed 0, max speed 0 and all three counters 0.
C9_EmptyTripSummary ==
  (summary # None /\ summary.id = tripData.id /\ updates = 0) =>
    /\ summary.score = 100
    /\ summary.distance = 0
    /\ summary.distance_km = 0
    /\ summary.avgSpeed.sum = 0
    /\ summary.avg_speed = 0
    /\ summary.max_speed = 0
    /\ summary.hard_brakes = 0
    /\ summary.hard_accelerations = 0
    /\ summary.speeding_count = 0

\* a trip was started and stopped without any update
C9_Witness ==
  /\ summary # None
  /\ summary.id = tripData.id
  /\ updates = 0
  /\ summary.score = 100

\* C10 (as claimed): every fix of the location source is applied to the
\* accumulator by handleLocationUpdate at most once.
C10_FixAppliedOnce == \A k \in 1..Len(applied) : applied[k] <= 1

\* the store holds a record with the summary's trip id, counters and score
Holds(store, s) ==
  \E i \in 1..Len(store) :
    /\ store[i].id = s.id
    /\ store[i].hard_brakes = s.hard_brakes
    /\ store[i].hard_accelerations = s.hard_accelerations
    /\ store[i].speeding_count = s.speeding_count
    /\ store[i].score = s.score

\* stopTracking's "Reset state" block runs in this step
TripStateReset == isTracking /\ ~isTracking'

\* C11 (as claimed): whenever stopTracking resets the trip state after a
\* remote write that failed or was not attempted, the local offline store
\* holds a record with the trip's id, counters and score.
C11_FailedWriteKeptLocally ==
  [][(TripStateReset /\ ~Holds(remoteTrips', summary))
       => Holds(JSON_parse(offlineTrips'), summary)]_vars

\* the spec's conversion: round(max(0, metres per second x 3.6)), an absent
\* raw speed taken as 0
RoundOfClamped(raw) ==
  Math_round(Max(0, (IF raw.null THEN 0 ELSE raw.v) * 36), 100)

\* C12: for every raw speed the recorded speed max(0, round((speed || 0) x
\* 3.6)) equals round(max(0, speed x 3.6)); an absent or negative raw speed
\* is recorded as 0; every recorded speed is a non-negative integer.
C12_SpeedConversion ==
  probe.fn = "speed" =>
    /\ probe.speed = RoundOfClamped(probe.raw)
    /\ (probe.raw.null \/ probe.raw.v < 0) => probe.speed = 0
    /\ probe.speed \in Nat

\* a negative raw speed whose km/h value rounds to -1 is recorded as 0
C12_Witness ==
  /\ probe.fn = "speed"
  /\ ~probe.raw.null
  /\ Math_round(probe.speedKmh, 100) = -1
  /\ probe.speed = 0

\* this step is a handleLocationUpdate call on the accumulator
UpdateStep == SameTrip /\ updates' = updates + 1

CoordsOf(location) ==
  Pos(location.coords.latitude, location.coords.longitude)

\* C13 (as claimed): the first update of a trip adds nothing to distance;
\* every later update adds exactly calculateDistance from the previous
\* update's position to its own; after every update the remembered
\* previous position is that update's position.
C13_DistanceFromPreviousUpdate ==
  [][UpdateStep =>
       /\ tripData'.distance =
            tripData.distance
            + (IF updates = 0 THEN 0
               ELSE calculateDistance(
                      CoordsOf(lastUpdate.location).latitude,
                      CoordsOf(lastUpdate.location).longitude,
                      CoordsOf(lastUpdate'.location).latitude,
                      CoordsOf(lastUpdate'.location).longitude))
       /\ previousLocation' = CoordsOf(lastUpdate'.location)]_vars

\* C14 (as claimed): for each started trip stopTracking computes a summary
\* and submits it no more than once, whatever the outcome of the remote
\* write.
C14_FinalizedAtMostOnce == finalized <= 1

\* C15: calculateDistance(lat, lon, lat, lon) is 0 for every coordinate
\* pair, and an update at the previous position adds 0 to the distance.
C15_ZeroDistanceToSelf ==
  (probe.fn = "distance" /\ probe.from = probe.to) =>
    probe.dist = 0 /\ probe.added = 0

\* the distance from a point away from the equator and the prime meridian
\* to itself was measured
C15_Witness ==
  /\ probe.fn = "distance"
  /\ probe.from = Pos(60, 30)
  /\ probe.to = Pos(60, 30)
  /\ probe.dist = 0

\* C16: calculateDistance is symmetric: the distance from a to b equals the
\* distance from b to a, for all coordinate pairs.
C16_DistanceSymmetric ==
  probe.fn = "distance" =>
    probe.dist = calculateDistance(probe.to.latitude, probe.to.longitude,
                                   probe.from.latitude, probe.from.longitude)

\* two points that differ in latitude and longitude, a positive distance
C16_Witness ==
  /\ probe.fn = "distance"
  /\ probe.from.latitude < probe.to.latitude
  /\ probe.from.longitude > probe.to.longitude
  /\ probe.dist > 0

\* the last handleLocationUpdate call was the first one of its trip
FirstUpdate == lastUpdate # None /\ lastUpdate.before.speedReadings = <<>>

\* C17 (as claimed): when the first update of a trip is processed the
\* accumulator has distance 0, maxSpeed 0, all counters 0 and no readings,
\* the previous speed is 0 and there is no previous position, whatever
\* happened in an earlier trip.
C17_FreshAtFirstUpdate ==
  FirstUpdate =>
    /\ lastUpdate.before.distance = 0
    /\ lastUpdate.before.maxSpeed = 0
    /\ lastUpdate.before.hardBrakes = 0
    /\ lastUpdate.before.hardAccelerations = 0
    /\ lastUpdate.before.speedingCount = 0
    /\ lastUpdate.prevSpeed = 0
    /\ lastUpdate.prevLoc = None

\* C18 (as claimed): the previous speed and position are never reset
\* between two updates of a trip: every update after the first one runs
\* with the previous update's speed as previous speed and with a previous
\* position.
C18_NoResetBetweenUpdates ==
  (lastUpdate # None /\ lastUpdate.before.speedReadings # <<>>) =>
    /\ lastUpdate.prevSpeed =
         lastUpdate.before.speedReadings[Len(lastUpdate.before.speedReadings)]
    /\ lastUpdate.prevLoc # None

\* C19: no update increments both hardBrakes and hardAccelerations: for
\* every pair of previous and current speed at most one of the two
\* conditions holds.
C19_BrakeAccelExclusive ==
  probe.fn = "events" => ~(probe.brake /\ probe.accel)

\* a drop of more than 15 km/h from above 20 km/h: a hard brake and no hard
\* acceleration
C19_Witness ==
  /\ probe.fn = "events"
  /\ probe.prev - probe.speed > 15
  /\ probe.prev > 20
  /\ probe.brake
  /\ ~probe.accel

RECURSIVE MaxOf(_)
MaxOf(readings) ==
  IF readings = <<>> THEN 0 ELSE Max(Head(readings), MaxOf(Tail(readings)))

\* C20: after any sequence of updates maxSpeed equals the largest of the
\* trip's speed readings, and 0 when there is none.
C20_MaxSpeedIsMaximum ==
  tripData # None => tripData.maxSpeed = MaxOf(tripData.speedReadings)

\* three readings, the largest in the middle
C20_Witness ==
  /\ tripData # None
  /\ Len(tripData.speedReadings) = 3
  /\ tripData.speedReadings[1] > 0
  /\ tripData.speedReadings[2] > tripData.speedReadings[1]
  /\ tripData.speedReadings[2] > tripData.speedReadings[3]
  /\ tripData.maxSpeed = tripData.speedReadings[2]

\* C21: after every update the remembered previous speed is that update's
\* speed, the last element of speedReadings, and the brake, acceleration
\* and speeding checks of the update read the previous speed as it was
\* before the update.
C21_PreviousSpeedFollowsUpdate ==
  [][updates' = updates + 1 =>
       /\ previousSpeed' = lastUpdate'.speed
       /\ previousSpeed' =
            tripData'.speedReadings[Len(tripData'.speedReadings)]
       /\ tripData'.hardBrakes =
            tripData.hardBrakes
            + (IF IsHardBrake(previousSpeed, lastUpdate'.speed)
               THEN 1 ELSE 0)
       /\ tripData'.hardAccelerations =
            tripData.hardAccelerations
            + (IF lastUpdate'.speed - previousSpeed > 15 THEN 1 ELSE 0)
       /\ tripData'.speedingCount =
            tripData.speedingCount
            + (IF lastUpdate'.speed > 130 /\ previousSpeed <= 130
               THEN 1 ELSE 0)]_vars

\* an update from 135 km/h to standstill counted a hard brake and left 0 as
\* the previous speed
C21_Witness ==
  /\ lastUpdate # None
  /\ lastUpdate.prevSpeed = 135
  /\ lastUpdate.speed = 0
  /\ lastUpdate.after.hardBrakes = lastUpdate.before.hardBrakes + 1
  /\ previousSpeed = 0
  /\ tripData = lastUpdate.after

C24_OfflineStoreAppendOnly ==
  [][offlineTrips' # offlineTrips =>
       /\ Len(offlineTrips') = Len(offlineTrips) + 1
       /\ SubSeq(JSON_parse(offlineTrips'), 1, Len(offlineTrips))
            = JSON_parse(offlineTrips)
       /\ JSON_parse(offlineTrips')[Len(offlineTrips')].id = tripData.id
       /\ JSON_parse(offlineTrips')[Len(offlineTrips')].synced = FALSE]_vars

\* the store holds the records of two trips in the order they were saved
C24_Witness ==
  /\ Len(offlineTrips) = 2
  /\ JSON_parse(offlineTrips)[1].id = 1
  /\ JSON_parse(offlineTrips)[2].id = 2
  /\ JSON_parse(offlineTrips)[1].synced = FALSE
  /\ JSON_parse(offlineTrips)[2].synced = FALSE

\* the speeds of the fixes applied to the trip, each once, in the order the
\* location source produced them
RECURSIVE StreamOf(_)
StreamOf(S) ==
  IF S = {} THEN <<>>
  ELSE LET first == CHOOSE x \in S : \A y \in S : x.id <= y.id
       IN  <<first.speed>> \o StreamOf(S \ {first})

\* hard brakes and hard accelerations the screen's conditions find in a
\* stream of speeds that follows the speed prev
RECURSIVE BrakesIn(_, _)
BrakesIn(readings, prev) ==
  IF readings = <<>> THEN 0
  ELSE (IF IsHardBrake(prev, Head(readings)) THEN 1 ELSE 0)
       + BrakesIn(Tail(readings), Head(readings))

RECURSIVE AccelerationsIn(_, _)
AccelerationsIn(readings, prev) ==
  IF readings = <<>> THEN 0
  ELSE (IF Head(readings) - prev > 15 THEN 1 ELSE 0)
       + AccelerationsIn(Tail(readings), Head(readings))

\* C25 (as claimed): with the background task and the foreground watcher
\* both delivering fixes, the three event counters equal those of the
\* single time-ordered stream of the trip's fixes, after any interleaving.
C25_InterleavingKeepsCounters ==
  tripData # None =>
    /\ tripData.hardBrakes = BrakesIn(StreamOf(fed), 0)
    /\ tripData.hardAccelerations = AccelerationsIn(StreamOf(fed), 0)
    /\ tripData.speedingCount = Crossings(StreamOf(fed), 0)

\* C26 (as claimed): the summary built by stopTracking reflects every
\* update applied to the trip before it was computed in all of its fields:
\* distance, maxSpeed, the three counters and the average speed are those
\* of the accumulator (which no update changes afterwards).
C26_SummaryIsSnapshot ==
  (summary # None /\ summary.id = tripData.id /\ finalized > 0) =>
    /\ summary.distance = tripData.distance
    /\ summary.max_speed = tripData.maxSpeed
    /\ summary.hard_brakes = tripData.hardBrakes
    /\ summary.hard_accelerations = tripData.hardAccelerations
    /\ summary.speeding_count = tripData.speedingCount
    /\ summary.avgSpeed = AvgSpeed(tripData.speedReadings)

\* startTracking returns in this step without having started the trip
StartFailed ==
  pc \in {"start_create", "start_bg", "start_fg"} /\ pc' = "idle"
  /\ ~isTracking'

\* C27 (as claimed): if startTracking fails at any step, then when it
\* returns isTracking is false and neither the foreground subscription nor
\* the background location task is active.
C27_FailedStartLeavesNothing ==
  [][StartFailed => ~locationSubscription' /\ ~bgRunning']_vars

\* C28 (as claimed): whenever no start or stop is in progress (isLoading
\* is false), isTracking is true exactly when the foreground subscription
\* is active; in particular a failed save does not leave the screen showing
\* a recording trip whose subscription is gone.
C28_TrackingMeansSubscribed ==
  (~isLoading /\ pc = "idle") => (isTracking <=> locationSubscription)

\* C29 (as claimed): the first update of a trip never increments hardBrakes;
\* it adds 1 to hardAccelerations exactly when its speed is above 15 km/h
\* and 1 to speedingCount exactly when its speed is above 130 km/h.
C29_FirstUpdateAgainstZero ==
  FirstUpdate =>
    /\ lastUpdate.after.hardBrakes = lastUpdate.before.hardBrakes
    /\ lastUpdate.after.hardAccelerations =
         lastUpdate.before.hardAccelerations
         + (IF lastUpdate.speed > AccelThreshold THEN 1 ELSE 0)
    /\ lastUpdate.after.speedingCount =
         lastUpdate.before.speedingCount
         + (IF lastUpdate.speed > SpeedLimit THEN 1 ELSE 0)

\* C30: the duration of a summary is its end time minus the start time of
\* the trip, in milliseconds, divided by 60000 (sent with two decimals) and
\* is never negative; the start time is the time at which the accumulator
\* was created and no step of the same trip changes it.
C30_DurationFromStartToEnd ==
  /\ []((summary # None /\ summary.id = tripData.id) =>
          /\ summary.durationMs = summary.end_time - tripData.startTime
          /\ summary.duration_minutes =
               Math_round(100 * summary.durationMs, 60000)
          /\ summary.durationMs >= 0)
  /\ [][trips' = trips + 1 => tripData'.startTime = now']_vars
  /\ [][SameTrip => tripData'.startTime = tripData.startTime]_vars

\* a trip created after the clock has advanced, with updates, whose summary
\* has a positive duration
C30_Witness ==
  /\ summary # None
  /\ summary.id = tripData.id
  /\ tripData.startTime > 0
  /\ updates > 0
  /\ summary.durationMs > 0
  /\ summary.duration_minutes > 0

====
